---- MODULE Spec2Model ----
(***************************************************************************)
(* ogman.eda: clean_columns (src/src/ogman/eda/columns.py) and             *)
(* summarize_df (src/src/ogman/eda/summary.py).                            *)
(*                                                                         *)
(* A Python str is a sequence of one-character strings, so that slicing,   *)
(* concatenation and the regular expressions of to_snake are computed.     *)
(* A dict is a function; dict.items() order matters only for `overrides`,  *)
(* which is a sequence of <<key, value>> pairs with distinct keys.         *)
(* df.columns is a sequence of flat string labels (no MultiIndex), so      *)
(* cols_in = list(map(str, df.columns)) and orig = raw in the base loop.   *)
(* A table of clean_columns is its sequence of column labels; writing the  *)
(* mapping to save_map_to is not modelled.  A table of summarize_df is a   *)
(* row count and a sequence of typed columns; the rendering of top_values  *)
(* is not modelled.  Floats of the summary are exact hundredths.           *)
(***************************************************************************)
EXTENDS Integers, Sequences, FiniteSets, TLC

VARIABLES
    columns,          \* df.columns of the input table
    overrides,        \* the overrides argument, in items() order
    conflict_suffix,  \* argument
    digit_prefix,     \* argument
    max_len,          \* argument: <<>> is None, <<n>> is the integer n
    extra_reserved,   \* argument
    pc,               \* position in clean_columns / summarize_df
    k,                \* index of the column / override being processed
    s,                \* candidate name of the base pass
    vv,               \* candidate name of the override pass
    current,          \* current name of the column an override addresses
    base,             \* base of the candidate
    i,                \* next uniqueness suffix
    used,             \* set of names handed out so far
    mapping,          \* original label -> cleaned label
    cleaned_over,     \* current label -> overridden label
    df2,              \* column labels of the returned table
    df,               \* the table given to summarize_df
    summary           \* the table summarize_df returns

cfgvars == <<columns, overrides, conflict_suffix, digit_prefix, max_len, extra_reserved>>
cleanvars == <<pc, k, s, vv, current, base, i, used, mapping, cleaned_over, df2>>
sumvars == <<df, summary>>
vars == <<cfgvars, cleanvars, sumvars>>

-----------------------------------------------------------------------------
(* Bounds of the model *)

MaxCols == 2
MaxOverrides == 2
MaxRows == 2
MaxSummaryCols == 2

-----------------------------------------------------------------------------
(* Characters and strings *)

Range(f) == {f[x] : x \in DOMAIN f}

UpperChars == <<"A","B","C","D","E","F","G","H","I","J","K","L","M",
                "N","O","P","Q","R","S","T","U","V","W","X","Y","Z">>
LowerChars == <<"a","b","c","d","e","f","g","h","i","j","k","l","m",
                "n","o","p","q","r","s","t","u","v","w","x","y","z">>
DigitChars == <<"0","1","2","3","4","5","6","7","8","9">>
SpaceChars == {" ", "\t", "\n"}

IsUpper(c) == c \in Range(UpperChars)
IsLower(c) == c \in Range(LowerChars)
IsDigit(c) == c \in Range(DigitChars)

\* str.lower() of one character
Lower(c) ==
    IF IsUpper(c)
    THEN LowerChars[CHOOSE n \in DOMAIN UpperChars : UpperChars[n] = c]
    ELSE IF c = "É" THEN "é" ELSE c

\* str(n) for n >= 0
RECURSIVE DecStr(_)
DecStr(n) ==
    IF n < 10 THEN <<DigitChars[n + 1]>>
    ELSE DecStr(n \div 10) \o <<DigitChars[(n % 10) + 1]>>

Max(a, b) == IF a >= b THEN a ELSE b
Min(a, b) == IF a <= b THEN a ELSE b

\* name[:n] for n >= 0
Prefix(name, n) == SubSeq(name, 1, Min(n, Len(name)))

-----------------------------------------------------------------------------
(* to_snake *)

\* NFKD decomposition of one character with the combining marks dropped
DeaccentChar(c) ==
    IF c = "é" THEN "e" ELSE IF c = "É" THEN "E" ELSE c

deaccent(str) == [n \in DOMAIN str |-> DeaccentChar(str[n])]

RECURSIVE LStrip(_, _)
LStrip(str, drop) ==
    IF str # <<>> /\ Head(str) \in drop THEN LStrip(Tail(str), drop) ELSE str

RECURSIVE RStrip(_, _)
RStrip(str, drop) ==
    IF str # <<>> /\ str[Len(str)] \in drop
    THEN RStrip(SubSeq(str, 1, Len(str) - 1), drop)
    ELSE str

Strip(str, drop) == RStrip(LStrip(str, drop), drop)

\* last index of the run of lowercase letters that starts at n
LowerRunEnd(str, n) ==
    CHOOSE e \in n..Len(str) :
        /\ \A m \in n..e : IsLower(str[m])
        /\ (e = Len(str) \/ ~IsLower(str[e + 1]))

\* re.sub(r'(.)([A-Z][a-z]+)', r'\1_\2', str), scanning from index n
RECURSIVE SubWord(_, _)
SubWord(str, n) ==
    IF n > Len(str) THEN <<>>
    ELSE IF /\ n + 2 <= Len(str)
            /\ str[n] # "\n"
            /\ IsUpper(str[n + 1])
            /\ IsLower(str[n + 2])
         THEN LET e == LowerRunEnd(str, n + 2)
              IN  <<str[n], "_">> \o SubSeq(str, n + 1, e) \o SubWord(str, e + 1)
         ELSE <<str[n]>> \o SubWord(str, n + 1)

\* re.sub(r'([a-z0-9])([A-Z])', r'\1_\2', str), scanning from index n
RECURSIVE SubBoundary(_, _)
SubBoundary(str, n) ==
    IF n > Len(str) THEN <<>>
    ELSE IF /\ n + 1 <= Len(str)
            /\ (IsLower(str[n]) \/ IsDigit(str[n]))
            /\ IsUpper(str[n + 1])
         THEN <<str[n], "_", str[n + 1]>> \o SubBoundary(str, n + 2)
         ELSE <<str[n]>> \o SubBoundary(str, n + 1)

\* str.replace('-', '_').replace('/', '_')
ReplaceDashSlash(str) ==
    [n \in DOMAIN str |-> IF str[n] \in {"-", "/"} THEN "_" ELSE str[n]]

\* re.sub(run+, '_', str) for the runs of characters of the set `run`
RECURSIVE SubRuns(_, _)
SubRuns(str, run) ==
    IF str = <<>> THEN <<>>
    ELSE IF Head(str) \in run
         THEN <<"_">> \o SubRuns(LStrip(str, run), run)
         ELSE <<Head(str)>> \o SubRuns(Tail(str), run)

IsNameChar(c) == IsLower(c) \/ IsDigit(c) \/ c = "_"

to_snake(str, prefix) ==
    LET s1 == Strip(deaccent(str), SpaceChars)
        s2 == SubWord(s1, 1)
        s3 == SubBoundary(s2, 1)
        s4 == ReplaceDashSlash(s3)
        s5 == SubRuns(s4, SpaceChars)
        s6 == [n \in DOMAIN s5 |-> Lower(s5[n])]
        s7 == SelectSeq(s6, IsNameChar)
        s8 == Strip(SubRuns(s7, {"_"}), {"_"})
        s9 == IF s8 = <<>> THEN <<"c", "o", "l">> ELSE s8
    IN  IF IsDigit(s9[1]) THEN prefix \o s9 ELSE s9

-----------------------------------------------------------------------------
(* shorten, the reserved set, dict helpers *)

shorten(name, keep_for_suffix) ==
    IF max_len = <<>> \/ Len(name) <= max_len[1]
    THEN name
    ELSE Prefix(name, Max(1, max_len[1] - keep_for_suffix))

reserved ==
    {<<"i","n","d","e","x">>, <<"c","o","l","u","m","n","s">>} \cup extra_reserved

\* f"_{i}"
Suf(n) == <<"_">> \o DecStr(n)

EmptyDict == [x \in {} |-> <<>>]

\* d[key] = value
Put(d, key, value) ==
    [x \in DOMAIN d \cup {key} |-> IF x = key THEN value ELSE d[x]]

\* d.get(key, default)
Get(d, key, default) == IF key \in DOMAIN d THEN d[key] ELSE default

\* labels.rename(columns=d): a label that is a key of d is replaced
Rename(labels, d) == [n \in DOMAIN labels |-> Get(d, labels[n], labels[n])]

\* the override pass with its uniqueness test dropped
TakenByOtherUnchecked(name, usedNames, own) == FALSE

\* the test of the uniqueness loop of the override pass
TakenByOther(name, usedNames, own) == name \in (usedNames \ {own})

\* the test of the uniqueness loop of the base pass
Taken(name, usedNames) == name \in usedNames

-----------------------------------------------------------------------------
(* Inputs of clean_columns *)

RawLabels == {<<"a">>, <<"A">>, <<"a","B">>, <<"i","n","d","e","x">>}
OverrideKeys == {<<"a">>, <<"a","B">>}
WantedNames == {<<"a">>, <<"I","n","d","e","x">>, <<"2">>}
ConflictSuffixes == {<<"_","c","o","l">>, <<>>}
DigitPrefixes == {<<"c","o","l","_">>}
MaxLens == {<<>>, <<1>>, <<3>>}
ExtraReserved == {{}, {<<"a","_","2">>}}

SeqsUpTo(S, n) == UNION {[1..m -> S] : m \in 0..n}

Tables == SeqsUpTo(RawLabels, MaxCols)

\* a dict has each key once
OverrideDicts ==
    {o \in SeqsUpTo(OverrideKeys \X WantedNames, MaxOverrides) :
        \A m, n \in DOMAIN o : m # n => o[m][1] # o[n][1]}

\* to_snake tabulated over the strings and prefixes a call can be given
SnakeTable ==
    [p \in DigitPrefixes |->
        [str \in RawLabels \cup OverrideKeys \cup WantedNames |-> to_snake(str, p)]]

Snake(str) == SnakeTable[digit_prefix][str]

NoTable == <<>>

\* before a call: no arguments, no locals, no result
Init ==
    /\ pc = "idle"
    /\ columns = <<>>
    /\ overrides = <<>>
    /\ conflict_suffix = <<>>
    /\ digit_prefix = <<>>
    /\ max_len = <<>>
    /\ extra_reserved = {}
    /\ k = 0
    /\ s = <<>>
    /\ vv = <<>>
    /\ current = <<>>
    /\ base = <<>>
    /\ i = 0
    /\ used = {}
    /\ mapping = EmptyDict
    /\ cleaned_over = EmptyDict
    /\ df2 = <<>>
    /\ df = NoTable
    /\ summary = NoTable

\* clean_columns(df, overrides, ...) is called: mapping, used = {}, set()
CleanCall ==
    /\ pc = "idle"
    /\ columns' \in Tables
    /\ overrides' \in OverrideDicts
    /\ conflict_suffix' \in ConflictSuffixes
    /\ digit_prefix' \in DigitPrefixes
    /\ max_len' \in MaxLens
    /\ extra_reserved' \in ExtraReserved
    /\ mapping' = EmptyDict
    /\ used' = {}
    /\ k' = 1
    /\ pc' = "for_columns"
    /\ UNCHANGED <<sumvars, s, vv, current, base, i, cleaned_over, df2>>

-----------------------------------------------------------------------------
(* clean_columns, base pass: lines 100-114 *)

\* for orig, raw in zip(...): s = to_snake(raw); base = s
BaseBegin ==
    /\ pc = "for_columns"
    /\ k <= Len(columns)
    /\ s' = Snake(columns[k])
    /\ base' = Snake(columns[k])
    /\ pc' = "while_reserved"
    /\ UNCHANGED <<cfgvars, sumvars, k, vv, current, i, used, mapping, cleaned_over, df2>>

\* while s in reserved: s = f"{base}{conflict_suffix}"; base = s
BaseReservedStep ==
    /\ pc = "while_reserved"
    /\ s \in reserved
    /\ s' = base \o conflict_suffix
    /\ base' = base \o conflict_suffix
    /\ UNCHANGED <<cfgvars, sumvars, pc, k, vv, current, i, used, mapping, cleaned_over, df2>>

\* s = shorten(s); base = s; i = 2
BaseShorten ==
    /\ pc = "while_reserved"
    /\ s \notin reserved
    /\ s' = shorten(s, 0)
    /\ base' = shorten(s, 0)
    /\ i' = 2
    /\ pc' = "while_used"
    /\ UNCHANGED <<cfgvars, sumvars, k, vv, current, used, mapping, cleaned_over, df2>>

\* while s in used: suf = f"_{i}"; s = shorten(base, len(suf)) + suf; i += 1
BaseUniqueStep ==
    /\ pc = "while_used"
    /\ Taken(s, used)
    /\ s' = shorten(base, Len(Suf(i))) \o Suf(i)
    /\ i' = i + 1
    /\ UNCHANGED <<cfgvars, sumvars, pc, k, vv, current, base, used, mapping, cleaned_over, df2>>

\* used.add(s); mapping[orig] = s
BaseRecord ==
    /\ pc = "while_used"
    /\ ~Taken(s, used)
    /\ used' = used \cup {s}
    /\ mapping' = Put(mapping, columns[k], s)
    /\ k' = k + 1
    /\ pc' = "for_columns"
    /\ UNCHANGED <<cfgvars, sumvars, s, vv, current, base, i, cleaned_over, df2>>

\* df2 = df.rename(columns=mapping); if overrides: cleaned_over = {}
BaseRename ==
    /\ pc = "for_columns"
    /\ k > Len(columns)
    /\ df2' = Rename(columns, mapping)
    /\ cleaned_over' = EmptyDict
    /\ k' = 1
    /\ pc' = IF overrides # <<>> THEN "for_overrides" ELSE "done"
    /\ UNCHANGED <<cfgvars, sumvars, s, vv, current, base, i, used, mapping>>

-----------------------------------------------------------------------------
(* clean_columns, override pass: lines 119-139 *)

\* for orig_name, wanted in overrides.items(): current = ...; vv = to_snake(wanted); base = vv
OverBegin ==
    /\ pc = "for_overrides"
    /\ k <= Len(overrides)
    /\ current' = Get(mapping, overrides[k][1], Snake(overrides[k][1]))
    /\ vv' = Snake(overrides[k][2])
    /\ base' = Snake(overrides[k][2])
    /\ pc' = "over_reserved"
    /\ UNCHANGED <<cfgvars, sumvars, k, s, i, used, mapping, cleaned_over, df2>>

\* while vv in reserved: vv = f"{base}{conflict_suffix}"; base = vv
OverReservedStep ==
    /\ pc = "over_reserved"
    /\ vv \in reserved
    /\ vv' = base \o conflict_suffix
    /\ base' = base \o conflict_suffix
    /\ UNCHANGED <<cfgvars, sumvars, pc, k, s, current, i, used, mapping, cleaned_over, df2>>

\* base = vv; i = 2
OverPrepare ==
    /\ pc = "over_reserved"
    /\ vv \notin reserved
    /\ base' = vv
    /\ i' = 2
    /\ pc' = "over_used"
    /\ UNCHANGED <<cfgvars, sumvars, k, s, vv, current, used, mapping, cleaned_over, df2>>

\* while vv in (used - {current}): suf = f"_{i}"; vv = shorten(base, len(suf)) + suf; i += 1
OverUniqueStep ==
    /\ pc = "over_used"
    /\ TakenByOther(vv, used, current)
    /\ vv' = shorten(base, Len(Suf(i))) \o Suf(i)
    /\ i' = i + 1
    /\ UNCHANGED <<cfgvars, sumvars, pc, k, s, current, base, used, mapping, cleaned_over, df2>>

\* used.add(vv); cleaned_over[current] = vv; if orig_name in mapping: mapping[orig_name] = vv
OverRecord ==
    /\ pc = "over_used"
    /\ ~TakenByOther(vv, used, current)
    /\ used' = used \cup {vv}
    /\ cleaned_over' = Put(cleaned_over, current, vv)
    /\ mapping' = IF overrides[k][1] \in DOMAIN mapping
                  THEN Put(mapping, overrides[k][1], vv)
                  ELSE mapping
    /\ k' = k + 1
    /\ pc' = "for_overrides"
    /\ UNCHANGED <<cfgvars, sumvars, s, vv, current, base, i, df2>>

\* df2 = df2.rename(columns=cleaned_over); return (df2, mapping)
OverRename ==
    /\ pc = "for_overrides"
    /\ k > Len(overrides)
    /\ df2' = Rename(df2, cleaned_over)
    /\ pc' = "done"
    /\ UNCHANGED <<cfgvars, sumvars, k, s, vv, current, base, i, used, mapping, cleaned_over>>

Next ==
    \/ CleanCall
    \/ BaseBegin
    \/ BaseReservedStep
    \/ BaseShorten
    \/ BaseUniqueStep
    \/ BaseRecord
    \/ BaseRename
    \/ OverBegin
    \/ OverReservedStep
    \/ OverPrepare
    \/ OverUniqueStep
    \/ OverRecord
    \/ OverRename

Spec == Init /\ [][Next]_vars

\* clean_columns is one sequential call: a step that can be taken is taken
FairSpec == Spec /\ WF_vars(Next)

-----------------------------------------------------------------------------
(* summarize_df *)

\* A cell is <<>> when missing and <<v>> when it holds the value v.  A float
\* of the summary is <<>> when NaN and <<h>> when it is h / 100.
Missing == <<>>
NaN == <<>>

DTypes == {"int64", "float64", "bool", "datetime64[ns]", "object", "category"}

\* numpy's int64 and bool arrays hold no missing value
Nullable(dtype) == dtype \notin {"int64", "bool"}

CellValues == {<<1>>, <<2>>}

ColumnsOf(n) ==
    {c \in [dtype : DTypes, values : [1..n -> CellValues \cup {Missing}]] :
        Nullable(c.dtype) \/ \A r \in 1..n : c.values[r] # Missing}

\* a table: n_rows rows and a sequence of columns of that length
SummaryTables ==
    UNION {[n_rows : {n}, cols : UNION {[1..m -> ColumnsOf(n)] : m \in 1..MaxSummaryCols}]
           : n \in 0..MaxRows}

\* pandas.api.types.is_numeric_dtype: bool counts as numeric
is_numeric_dtype(dtype) == dtype \in {"int64", "float64", "bool"}
is_bool_dtype(dtype) == dtype = "bool"
is_datetime64_any_dtype(dtype) == dtype = "datetime64[ns]"
is_object_dtype(dtype) == dtype = "object"

\* df.select_dtypes(include="number"): numpy's bool_ is no subclass of number
IsNumberDtype(dtype) == dtype \in {"int64", "float64"}

CategoricalMax == 10

\* round(a / b) for a >= 0, b > 0, halves to the even neighbour
RoundDiv(a, b) ==
    LET q == a \div b
        r == a % b
    IN  IF 2 * r < b THEN q
        ELSE IF 2 * r > b THEN q + 1
        ELSE IF q % 2 = 0 THEN q ELSE q + 1

\* (x / n * 100).round(2), in hundredths; 0 / 0 is NaN
Percent(x, n) == IF n = 0 THEN NaN ELSE <<RoundDiv(x * 10000, n)>>

\* the sum of the values of column col in the rows of the set `rows`
RECURSIVE SumRows(_, _)
SumRows(col, rows) ==
    IF rows = {} THEN 0
    ELSE LET r == CHOOSE r \in rows : TRUE
         IN  col.values[r][1] + SumRows(col, rows \ {r})

NonNull(col) == {r \in DOMAIN col.values : col.values[r] # Missing}

\* s.isna().sum()
MissingCount(col) == Cardinality(DOMAIN col.values \ NonNull(col))

\* s.nunique(dropna=...)
NUnique(col, dropna) ==
    Cardinality({col.values[r] : r \in (IF dropna THEN NonNull(col) ELSE DOMAIN col.values)})

\* s.duplicated(keep=False).sum(): missing values equal each other
DuplicatedCount(col) ==
    Cardinality({r \in DOMAIN col.values :
                    \E q \in DOMAIN col.values : q # r /\ col.values[q] = col.values[r]})

logical_type(col) ==
    IF is_numeric_dtype(col.dtype) THEN "numeric"
    ELSE IF is_bool_dtype(col.dtype) THEN "boolean"
    ELSE IF is_datetime64_any_dtype(col.dtype) THEN "datetime"
    ELSE IF is_object_dtype(col.dtype)
         THEN (IF NUnique(col, TRUE) <= CategoricalMax THEN "categorical" ELSE "text")
    ELSE "other"

\* s.min(), s.max(): missing values are skipped
ColMin(col) ==
    IF NonNull(col) = {} THEN NaN
    ELSE <<100 * (CHOOSE v \in {col.values[r][1] : r \in NonNull(col)} :
                    \A r \in NonNull(col) : v <= col.values[r][1])>>
ColMax(col) ==
    IF NonNull(col) = {} THEN NaN
    ELSE <<100 * (CHOOSE v \in {col.values[r][1] : r \in NonNull(col)} :
                    \A r \in NonNull(col) : v >= col.values[r][1])>>

\* s.mean().round(2)
ColMean(col) ==
    IF NonNull(col) = {} THEN NaN
    ELSE <<RoundDiv(100 * SumRows(col, NonNull(col)), Cardinality(NonNull(col)))>>

SummaryRow(col, n_rows) ==
    [dtype          |-> col.dtype,
     nunique        |-> NUnique(col, FALSE),
     missing        |-> MissingCount(col),
     missing_pct    |-> Percent(MissingCount(col), n_rows),
     duplicates     |-> DuplicatedCount(col),
     duplicates_pct |-> Percent(DuplicatedCount(col), n_rows),
     logical_type   |-> logical_type(col),
     stats_set      |-> IsNumberDtype(col.dtype),
     min            |-> IF IsNumberDtype(col.dtype) THEN ColMin(col) ELSE NaN,
     max            |-> IF IsNumberDtype(col.dtype) THEN ColMax(col) ELSE NaN,
     mean           |-> IF IsNumberDtype(col.dtype) THEN ColMean(col) ELSE NaN,
     min_date       |-> IF logical_type(col) = "datetime" THEN ColMin(col) ELSE NaN,
     max_date       |-> IF logical_type(col) = "datetime" THEN ColMax(col) ELSE NaN]

\* summarize_df(df): one row per column, in column order
Summarize ==
    /\ pc = "summarize"
    /\ summary' = [c \in DOMAIN df.cols |-> SummaryRow(df.cols[c], df.n_rows)]
    /\ pc' = "summarized"
    /\ UNCHANGED <<cfgvars, df, k, s, vv, current, base, i, used, mapping, cleaned_over, df2>>

\* summarize_df(df) is called
SummarizeCall ==
    /\ pc = "idle"
    /\ df' \in SummaryTables
    /\ pc' = "summarize"
    /\ UNCHANGED <<cfgvars, summary, k, s, vv, current, base, i, used, mapping, cleaned_over, df2>>

SummaryNext ==
    \/ SummarizeCall
    \/ Summarize

SpecSummary == Init /\ [][SummaryNext]_vars

-----------------------------------------------------------------------------
(* Properties of clean_columns *)

Injective(f) == \A x, y \in DOMAIN f : x # y => f[x] # f[y]

DistinctSeq(q) == \A m, n \in DOMAIN q : m # n => q[m] # q[n]

Values(f) == {f[x] : x \in DOMAIN f}

\* the override that OverRecord has just recorded
LastKey == overrides[k - 1][1]
LastWanted == Snake(overrides[k - 1][2])

\* C1: the values of the mapping are pairwise distinct, while the base pass
\* builds it, after the base pass and after every override.
MappingValuesDistinct == Injective(mapping)

\* C1 witness: a two-column call has returned whose last override names a
\* column of the table and went through the uniqueness loop.
MappingValuesDistinctWitness ==
    /\ pc = "done"
    /\ Cardinality(DOMAIN mapping) = 2
    /\ overrides # <<>>
    /\ overrides[Len(overrides)][1] \in DOMAIN mapping
    /\ i > 2

\* C2: the column labels of the returned table are pairwise distinct, also
\* when input columns share a raw label.
TableLabelsDistinct == pc = "done" => DistinctSeq(df2)

\* C3: the returned mapping has one entry per input column, also when input
\* columns share a raw label.
MappingEntryPerColumn == pc = "done" => Cardinality(DOMAIN mapping) = Len(columns)

\* C4: no label of the mapping or of the returned table is in the reserved
\* set, truncation and uniqueness suffixes included.
NoReservedLabel ==
    /\ \A x \in DOMAIN mapping : mapping[x] \notin reserved
    /\ pc = "done" => \A n \in DOMAIN df2 : df2[n] \notin reserved

\* C5: with max_len set, every label of the mapping has at most max_len
\* characters, suffixed and overridden labels included.
LengthCap ==
    max_len # <<>> => \A x \in DOMAIN mapping : Len(mapping[x]) <= max_len[1]

\* C6: overrides whose key is no label of the table have no effect; in the
\* case where no override names a label of the table, the call returns what
\* the base pass produced: the mapping applied to the input labels.
AbsentOverridesIgnored ==
    (/\ pc = "done"
     /\ \A n \in DOMAIN overrides : overrides[n][1] \notin Range(columns))
    => df2 = Rename(columns, mapping)

\* C9: an override of a column of the table whose sanitized desired name is
\* not reserved and is not the current name of any other column gives the
\* column exactly that name.  Stated for tables with distinct raw labels and
\* overrides that all name columns of the table.
OverrideTakesFreeName ==
    (/\ pc = "for_overrides"
     /\ k > 1
     /\ DistinctSeq(columns)
     /\ \A n \in 1..(k - 1) : overrides[n][1] \in DOMAIN mapping
     /\ LastWanted \notin reserved
     /\ LastWanted \notin Values([x \in DOMAIN mapping \ {LastKey} |-> mapping[x]]))
    => mapping[LastKey] = LastWanted

\* C10: clean_columns terminates for every table and configuration.
Termination == (pc = "for_columns") ~> (pc = "done")

-----------------------------------------------------------------------------
(* Properties of summarize_df *)

InPercentRange(x) == x # NaN /\ x[1] >= 0 /\ x[1] <= 10000

\* C7: the missing and duplicates percentages of every column are numbers in
\* [0, 100], and both are 0 when the table has no rows.
PercentagesDefined ==
    pc = "summarized" =>
        \A c \in DOMAIN summary :
            /\ InPercentRange(summary[c].missing_pct)
            /\ InPercentRange(summary[c].duplicates_pct)
            /\ df.n_rows = 0 =>
                   summary[c].missing_pct = <<0>> /\ summary[c].duplicates_pct = <<0>>

\* C8: a bool column is classified "boolean", an int64 or float64 column
\* "numeric", and min/max/mean are set exactly for the "numeric" columns.
LogicalTypeChain ==
    pc = "summarized" =>
        \A c \in DOMAIN summary :
            /\ summary[c].dtype = "bool" => summary[c].logical_type = "boolean"
            /\ summary[c].dtype \in {"int64", "float64"} =>
                   summary[c].logical_type = "numeric"
            /\ summary[c].stats_set <=> summary[c].logical_type = "numeric"

====
